---- MODULE Spec2Model ----
(***************************************************************************)
(* Model of pa3.c: a software TLB, a two-level page table with a global    *)
(* frame reference-count table (mapcounts), copy-on-write fork and process *)
(* switching.  Each action is one entry point of pa3.c, run to completion. *)
(***************************************************************************)
EXTENDS Integers, Sequences, FiniteSets, TLC

(* ---- configuration (scaled down) and bounds ---- *)

\* entries per page-table level (vm.h; used at pa3.c:134,316,323)
NR_PTES_PER_PAGE == 2
\* number of physical frames (vm.h; used at pa3.c:83,93,154)
NR_PAGEFRAMES == 2
\* access flags (vm.h; used at pa3.c:144,147,242)
RW_READ == 1
RW_WRITE == 2
\* number of struct process objects that may exist (init + forked)
MaxProcs == 2
\* largest pid the driver passes to switch_process
MaxPid == 1
\* number of entry-point calls in one run, on a zero-filled heap and on a
\* heap that hands out recycled memory
MaxSteps == 5
MaxStepsDirty == 4
\* number of calls in one long run (SpecLong), and how many of its first
\* calls may be alloc_page
MaxStepsLong == 9
MaxAllocPhase == 3

VPN == 0 .. (NR_PTES_PER_PAGE * NR_PTES_PER_PAGE - 1)
PFN == 0 .. (NR_PAGEFRAMES - 1)
OuterIdx == 0 .. (NR_PTES_PER_PAGE - 1)
ProcIdx == 0 .. (MaxProcs - 1)
\* tlb[1UL << (PTES_PER_PAGE_SHIFT * 2)]
TlbCap == NR_PTES_PER_PAGE * NR_PTES_PER_PAGE
TlbIdx == 0 .. (TlbCap - 1)

Outer(vpn) == vpn \div NR_PTES_PER_PAGE
DirVpns(o) == {v \in VPN : Outer(v) = o}

VARIABLES
  pid,         \* pid[p]: the pid field of process object p
  nprocs,      \* number of process objects created so far
  outer_ptes,  \* outer_ptes[p][o]: "null", "dir" (a malloc()ed directory) or "stray"
  ptes,        \* ptes[p][vpn]: the struct pte (meaningful when its directory exists)
  mapcounts,   \* mapcounts[f], unsigned int kept as its two's-complement integer
  tlb,         \* the tlb array
  tlbSize,     \* int tlbSize
  current,     \* the running process object
  ptbr,        \* the process object whose page table is active
  processes,   \* the ready queue, head first
  heapDirty,   \* environment: malloc hands out recycled (non-zero) memory
  ub,          \* an access outside mapcounts[] or tlb[], or through a stray
               \* pointer, has happened: behaviour is undefined from here on
  granted,     \* granted[p][vpn]: the rw of the successful alloc_page that made
               \* the mapping p holds at vpn (inherited over fork), 0 if none
  last,        \* the last call: [op, arg, rw, ret, branch]
  steps,       \* calls made so far
  limit        \* the run length: calls the driver makes in this run

vars == <<pid, nprocs, outer_ptes, ptes, mapcounts, tlb, tlbSize, current, ptbr,
          processes, heapDirty, ub, granted, last, steps, limit>>

ZeroPte == [valid |-> FALSE, writable |-> FALSE, pfn |-> 0, private |-> 0]
ZeroTlb == [valid |-> FALSE, vpn |-> 0, pfn |-> 0]

\* What a struct pte in memory returned by malloc() may hold: all zero, or
\* one of a few samples of recycled memory (a stale mapping that reads as
\* valid and writable, a stale read-only tag on an entry that reads as invalid).
StalePte ==
  {[valid |-> TRUE, writable |-> TRUE, pfn |-> NR_PAGEFRAMES - 1, private |-> 0],
   [valid |-> FALSE, writable |-> FALSE, pfn |-> 0, private |-> RW_READ]}

UninitPte == IF heapDirty THEN {ZeroPte} \cup StalePte ELSE {ZeroPte}

\* What an outer_ptes[] slot of a malloc()ed struct process may hold:
\* NULL, or a non-NULL pointer to nowhere.
UninitDirPtr == IF heapDirty THEN {"null", "stray"} ELSE {"null"}

\* unsigned comparisons on mapcounts[]: a negative integer stands for a
\* wrapped-around value close to 2^32.
CountIsZero(c) == c = 0
\* mutant: the sole-owner test never succeeds
CountIsOne_Never(c) == FALSE

CountIsOne(c) == c = 1
CountGe2(c) == c >= 2 \/ c < 0

Init ==
  /\ pid = [p \in ProcIdx |-> 0]
  /\ nprocs = 1
  /\ outer_ptes = [p \in ProcIdx |-> [o \in OuterIdx |-> "null"]]
  /\ ptes = [p \in ProcIdx |-> [v \in VPN |-> ZeroPte]]
  /\ mapcounts = [f \in PFN |-> 0]
  /\ tlb = [i \in TlbIdx |-> ZeroTlb]
  /\ tlbSize = 0
  /\ current = 0
  /\ ptbr = 0
  /\ processes = <<>>
  /\ heapDirty \in BOOLEAN
  /\ ub = FALSE
  /\ granted = [p \in ProcIdx |-> [v \in VPN |-> 0]]
  /\ last = [op |-> "init", arg |-> 0, rw |-> 0, ret |-> 0, branch |-> ""]
  /\ steps = 0
  /\ limit = IF heapDirty THEN MaxStepsDirty ELSE MaxSteps

\* process p maps vpn: its directory exists and the entry is valid
Mapped(p, vpn) == outer_ptes[p][Outer(vpn)] = "dir" /\ ptes[p][vpn].valid

\* the program is still running with defined behaviour, within the run length
Running == ~ub /\ steps < limit

(* ---- TLB ---- *)

\* the scan of lookup_tlb and free_page: the first slot below n whose vpn
\* matches, or -1
TlbHitIdx(t, n, vpn) ==
  LET hits == {i \in TlbIdx : i < n /\ t[i].vpn = vpn}
  IN IF hits = {} THEN -1 ELSE CHOOSE i \in hits : \A j \in hits : i <= j

\* lookup_tlb(vpn, &pfn): -1 on a miss, else the pfn stored
lookup_tlb(vpn) ==
  LET i == TlbHitIdx(tlb, tlbSize, vpn)
  IN IF i = -1 THEN -1 ELSE tlb[i].pfn

insert_tlb(vpn, pfn) ==
  /\ Running
  /\ IF tlbSize < TlbCap
       THEN /\ tlb' = [tlb EXCEPT ![tlbSize] = [valid |-> TRUE, vpn |-> vpn, pfn |-> pfn]]
            /\ ub' = ub
       ELSE /\ tlb' = tlb
            /\ ub' = TRUE
  /\ tlbSize' = tlbSize + 1
  /\ last' = [op |-> "insert", arg |-> vpn, rw |-> 0, ret |-> pfn, branch |-> ""]
  /\ steps' = steps + 1
  /\ UNCHANGED <<pid, nprocs, outer_ptes, ptes, mapcounts, current, ptbr,
                 processes, heapDirty, limit, granted>>

\* memset(tlb, 0, sizeof(tlb)) at the top of switch_process
FlushTlb(t) == [i \in TlbIdx |-> ZeroTlb]

\* tlbSize after switch_process
FlushTlbSize(n) == n

\* the TLB part of free_page: [tlb, tlbSize] afterwards
FreeTlb(t, n, vpn) ==
  LET i == TlbHitIdx(t, n, vpn)
  IN IF i = -1 THEN [tlb |-> t, tlbSize |-> n]
     ELSE [tlb |-> [t EXCEPT ![i].valid = FALSE], tlbSize |-> n - 1]

(* ---- frame allocator ---- *)

\* mutant: scans from the top and returns the largest free frame
find_smallest_pfn_Largest(mc) ==
  LET free == {f \in PFN : CountIsZero(mc[f])}
  IN IF free = {} THEN NR_PAGEFRAMES
     ELSE CHOOSE f \in free : \A g \in free : f >= g

find_smallest_pfn(mc) ==
  LET free == {f \in PFN : CountIsZero(mc[f])}
  IN IF free = {} THEN NR_PAGEFRAMES
     ELSE CHOOSE f \in free : \A g \in free : f <= g

\* mutant: a read-only allocation does not record the read-only tag
AllocPte_NoTag(old, rw, f) ==
  LET p1 == [old EXCEPT !.valid = TRUE]
      p2 == IF rw = RW_READ
              THEN [p1 EXCEPT !.writable = FALSE]
              ELSE IF rw = RW_WRITE + RW_READ
                     THEN [p1 EXCEPT !.writable = TRUE]
                     ELSE p1
  IN IF f = NR_PAGEFRAMES THEN p2 ELSE [p2 EXCEPT !.pfn = f]

\* the pte after alloc_page: old is the entry as found, f the result of
\* find_smallest_pfn
AllocPte(old, rw, f) ==
  LET p1 == [old EXCEPT !.valid = TRUE]
      p2 == IF rw = RW_READ
              THEN [p1 EXCEPT !.writable = FALSE, !.private = RW_READ]
              ELSE IF rw = RW_WRITE + RW_READ
                     THEN [p1 EXCEPT !.writable = TRUE]
                     ELSE p1
  IN IF f = NR_PAGEFRAMES THEN p2 ELSE [p2 EXCEPT !.pfn = f]

\* mapcounts after alloc_page
AllocCounts(mc, f) ==
  IF f = NR_PAGEFRAMES THEN mc ELSE [mc EXCEPT ![f] = @ + 1]

\* what alloc_page returns (-1 when all frames are allocated)
AllocRet(f) == IF f = NR_PAGEFRAMES THEN -1 ELSE f

\* rw values the driver passes to alloc_page: read-only and read-write
AllocModes == {RW_READ, RW_READ + RW_WRITE}

alloc_page(vpn, rw) ==
  /\ Running
  /\ LET o == Outer(vpn)
         f == find_smallest_pfn(mapcounts)
     IN IF outer_ptes[ptbr][o] = "stray"
          THEN \* the entry is written through a pointer to nowhere
               /\ ub' = TRUE
               /\ last' = [op |-> "alloc", arg |-> vpn, rw |-> rw, ret |-> -2,
                           branch |-> "stray"]
               /\ UNCHANGED <<ptes, outer_ptes, mapcounts, granted>>
          ELSE /\ \E g \in (IF outer_ptes[ptbr][o] = "dir"
                              THEN {[v \in DirVpns(o) |-> ptes[ptbr][v]]}
                              ELSE [DirVpns(o) -> UninitPte]) :
                    ptes' = [ptes EXCEPT ![ptbr] =
                               [v \in VPN |-> IF v = vpn THEN AllocPte(g[v], rw, f)
                                              ELSE IF v \in DirVpns(o) THEN g[v]
                                              ELSE @[v]]]
               /\ outer_ptes' = [outer_ptes EXCEPT ![ptbr][o] = "dir"]
               /\ mapcounts' = AllocCounts(mapcounts, f)
               /\ last' = [op |-> "alloc", arg |-> vpn, rw |-> rw, ret |-> AllocRet(f),
                           branch |-> IF f = NR_PAGEFRAMES THEN "oom" ELSE "ok"]
               /\ granted' = [granted EXCEPT ![ptbr][vpn] =
                                 IF f = NR_PAGEFRAMES THEN 0 ELSE rw]
               /\ ub' = ub
  /\ steps' = steps + 1
  /\ UNCHANGED <<pid, nprocs, tlb, tlbSize, current, ptbr, processes, heapDirty, limit>>

\* the pte after free_page
FreePte(old) == [old EXCEPT !.valid = FALSE, !.writable = FALSE, !.pfn = 0]

\* mutant: the freed frame's count is reset instead of decremented
FreeCounts_Reset(mc, old) == [mc EXCEPT ![old.pfn] = 0]

\* mapcounts after free_page: mapcounts[pte->pfn]--
FreeCounts(mc, old) == [mc EXCEPT ![old.pfn] = @ - 1]

\* With a NULL directory pointer free_page writes through address 0 and the
\* program is killed: no state follows, so the action is not enabled.
free_page(vpn) ==
  /\ Running
  /\ outer_ptes[ptbr][Outer(vpn)] # "null"
  /\ IF outer_ptes[ptbr][Outer(vpn)] = "stray"
       THEN /\ ub' = TRUE
            /\ UNCHANGED <<ptes, mapcounts, tlb, tlbSize, granted>>
       ELSE LET old == ptes[ptbr][vpn]
                t == FreeTlb(tlb, tlbSize, vpn)
            IN /\ ptes' = [ptes EXCEPT ![ptbr][vpn] = FreePte(old)]
               /\ mapcounts' = FreeCounts(mapcounts, old)
               /\ tlb' = t.tlb
               /\ tlbSize' = t.tlbSize
               /\ granted' = [granted EXCEPT ![ptbr][vpn] = 0]
               /\ ub' = ub
  /\ last' = [op |-> "free", arg |-> vpn, rw |-> 0, ret |-> 0, branch |-> ""]
  /\ steps' = steps + 1
  /\ UNCHANGED <<pid, nprocs, outer_ptes, current, ptbr, processes, heapDirty, limit>>

(* ---- page-fault handler ---- *)

\* (rw & RW_WRITE) == RW_WRITE
IsWrite(rw) == (rw \div RW_WRITE) % 2 = 1

\* mutant: the handler does not test the read-only tag before resolving a
\* write fault
Fault_NoReadOnlyCheck(dir, pte, rw, mc) ==
  IF dir = "stray"
    THEN [ret |-> FALSE, pte |-> pte, mc |-> mc, ub |-> TRUE, branch |-> "stray"]
  ELSE IF dir = "null"
    THEN [ret |-> FALSE, pte |-> pte, mc |-> mc, ub |-> FALSE, branch |-> "nodir"]
  ELSE IF ~pte.valid
    THEN [ret |-> FALSE, pte |-> pte, mc |-> mc, ub |-> FALSE, branch |-> "invalid"]
  ELSE IF ~pte.writable /\ IsWrite(rw)
    THEN IF CountIsOne(mc[pte.pfn])
           THEN [ret |-> TRUE, pte |-> [pte EXCEPT !.writable = TRUE], mc |-> mc,
                 ub |-> FALSE, branch |-> "reenable"]
         ELSE IF CountGe2(mc[pte.pfn])
           THEN LET mc1 == [mc EXCEPT ![pte.pfn] = @ - 1]
                    f == find_smallest_pfn(mc1)
                IN IF f = NR_PAGEFRAMES
                     THEN \* mapcounts[NR_PAGEFRAMES]++ lands outside the array
                          [ret |-> TRUE,
                           pte |-> [pte EXCEPT !.pfn = f, !.writable = TRUE],
                           mc |-> mc1, ub |-> TRUE, branch |-> "cow"]
                     ELSE [ret |-> TRUE,
                           pte |-> [pte EXCEPT !.pfn = f, !.writable = TRUE],
                           mc |-> [mc1 EXCEPT ![f] = @ + 1], ub |-> FALSE,
                           branch |-> "cow"]
         ELSE [ret |-> FALSE, pte |-> pte, mc |-> mc, ub |-> FALSE, branch |-> "error"]
  ELSE [ret |-> FALSE, pte |-> pte, mc |-> mc, ub |-> FALSE, branch |-> "error"]

\* handle_page_fault on the entry pte of a directory in state dir, with
\* mapcounts mc: the return value, the entry and the counts afterwards, whether
\* the call left defined behaviour, and the branch taken
Fault(dir, pte, rw, mc) ==
  IF dir = "stray"
    THEN [ret |-> FALSE, pte |-> pte, mc |-> mc, ub |-> TRUE, branch |-> "stray"]
  ELSE IF dir = "null"
    THEN [ret |-> FALSE, pte |-> pte, mc |-> mc, ub |-> FALSE, branch |-> "nodir"]
  ELSE IF ~pte.valid
    THEN [ret |-> FALSE, pte |-> pte, mc |-> mc, ub |-> FALSE, branch |-> "invalid"]
  ELSE IF ~pte.writable /\ IsWrite(rw)
    THEN IF pte.private = RW_READ
           THEN [ret |-> FALSE, pte |-> pte, mc |-> mc, ub |-> FALSE,
                 branch |-> "readonly"]
         ELSE IF CountIsOne(mc[pte.pfn])
           THEN [ret |-> TRUE, pte |-> [pte EXCEPT !.writable = TRUE], mc |-> mc,
                 ub |-> FALSE, branch |-> "reenable"]
         ELSE IF CountGe2(mc[pte.pfn])
           THEN LET mc1 == [mc EXCEPT ![pte.pfn] = @ - 1]
                    f == find_smallest_pfn(mc1)
                IN IF f = NR_PAGEFRAMES
                     THEN \* mapcounts[NR_PAGEFRAMES]++ lands outside the array
                          [ret |-> TRUE,
                           pte |-> [pte EXCEPT !.pfn = f, !.writable = TRUE],
                           mc |-> mc1, ub |-> TRUE, branch |-> "cow"]
                     ELSE [ret |-> TRUE,
                           pte |-> [pte EXCEPT !.pfn = f, !.writable = TRUE],
                           mc |-> [mc1 EXCEPT ![f] = @ + 1], ub |-> FALSE,
                           branch |-> "cow"]
         ELSE [ret |-> FALSE, pte |-> pte, mc |-> mc, ub |-> FALSE, branch |-> "error"]
  ELSE [ret |-> FALSE, pte |-> pte, mc |-> mc, ub |-> FALSE, branch |-> "error"]

\* rw values the driver passes to handle_page_fault: a read or a write access
AccessModes == {RW_READ, RW_WRITE}

handle_page_fault(vpn, rw) ==
  /\ Running
  /\ LET r == Fault(outer_ptes[ptbr][Outer(vpn)], ptes[ptbr][vpn], rw, mapcounts)
     IN /\ ptes' = [ptes EXCEPT ![ptbr][vpn] = r.pte]
        /\ mapcounts' = r.mc
        /\ ub' = r.ub
        /\ last' = [op |-> "fault", arg |-> vpn, rw |-> rw,
                    ret |-> IF r.ret THEN 1 ELSE 0, branch |-> r.branch]
  /\ steps' = steps + 1
  /\ UNCHANGED <<pid, nprocs, outer_ptes, tlb, tlbSize, current, ptbr, processes,
                 heapDirty, limit, granted>>

(* ---- process switch / fork ---- *)

\* list_for_each_entry_safe: position in the ready queue of the first process
\* whose pid is p, or 0
FindReady(q, p) ==
  LET hits == {i \in 1 .. Len(q) : pid[q[i]] = p}
  IN IF hits = {} THEN 0 ELSE CHOOSE i \in hits : \A j \in hits : i <= j

\* mutant: the target is not unlinked from the ready queue
ResumeQueue_KeepTarget(q, cur, i) == Append(q, cur)

\* mutant: the outgoing process is not put on the ready queue
ResumeQueue_DropCurrent(q, cur, i) ==
  [k \in 1 .. (Len(q) - 1) |-> IF k < i THEN q[k] ELSE q[k + 1]]

\* list_add_tail(&current->list) followed by list_del_init(&p->list), p at
\* position i
ResumeQueue(q, cur, i) ==
  LET q1 == Append(q, cur)
  IN [k \in 1 .. (Len(q1) - 1) |-> IF k < i THEN q1[k] ELSE q1[k + 1]]

\* the child's copy of a valid parent entry (lines 325-335)
ForkChildPte(p) == [p EXCEPT !.valid = TRUE, !.writable = FALSE]

\* the parent's own entry after the fork loop (line 332)
ForkParentPte(p) == IF p.valid THEN [p EXCEPT !.writable = FALSE] ELSE p

\* the entries the fork loop visits: valid ones in directories of the parent
Shared(par) ==
  {v \in VPN : outer_ptes[par][Outer(v)] = "dir" /\ ptes[par][v].valid}

\* mapcounts after the fork loop: one increment per valid parent entry
ForkCounts(mc, par) ==
  [f \in PFN |-> mc[f] + Cardinality({v \in Shared(par) : ptes[par][v].pfn = f})]

switch_process(p) ==
  /\ Running
  /\ tlb' = FlushTlb(tlb)
  /\ tlbSize' = FlushTlbSize(tlbSize)
  /\ LET i == FindReady(processes, p)
     IN IF i # 0
          THEN /\ processes' = ResumeQueue(processes, current, i)
               /\ current' = processes[i]
               /\ ptbr' = processes[i]
               /\ last' = [op |-> "resume", arg |-> p, rw |-> 0, ret |-> 0,
                           branch |-> ""]
               /\ UNCHANGED <<pid, nprocs, outer_ptes, ptes, mapcounts, ub, granted>>
          ELSE /\ nprocs < MaxProcs
               /\ last' = [op |-> "fork", arg |-> p, rw |-> 0, ret |-> 0,
                           branch |-> ""]
               /\ IF \E o \in OuterIdx : outer_ptes[ptbr][o] = "stray"
                    THEN \* the loop reads entries through a pointer to nowhere
                         /\ ub' = TRUE
                         /\ UNCHANGED <<pid, nprocs, outer_ptes, ptes, mapcounts,
                                        current, ptbr, processes, granted>>
                    ELSE LET n == nprocs
                             par == ptbr
                             fresh == {v \in VPN : outer_ptes[par][Outer(v)] = "dir"
                                                     /\ ~ptes[par][v].valid}
                         IN /\ \E d \in [OuterIdx -> UninitDirPtr],
                                  g \in [fresh -> UninitPte] :
                                 /\ outer_ptes' = [outer_ptes EXCEPT ![n] =
                                      [o \in OuterIdx |->
                                         IF outer_ptes[par][o] = "dir" THEN "dir"
                                         ELSE d[o]]]
                                 /\ ptes' = [ptes EXCEPT
                                      ![n] = [v \in VPN |->
                                                IF v \in Shared(par)
                                                  THEN ForkChildPte(ptes[par][v])
                                                ELSE IF v \in fresh THEN g[v]
                                                ELSE ZeroPte],
                                      ![par] = [v \in VPN |->
                                                  IF v \in Shared(par)
                                                    THEN ForkParentPte(ptes[par][v])
                                                    ELSE ptes[par][v]]]
                            /\ mapcounts' = ForkCounts(mapcounts, par)
                            /\ pid' = [pid EXCEPT ![n] = p]
                            /\ nprocs' = nprocs + 1
                            /\ processes' = Append(processes, current)
                            /\ current' = n
                            /\ ptbr' = n
                            /\ granted' = [granted EXCEPT ![n] = granted[par]]
                            /\ ub' = ub
  /\ steps' = steps + 1
  /\ UNCHANGED <<heapDirty, limit>>

Pids == 0 .. MaxPid

\* The framework's page-table walk for an access rw to vpn through ptbr: it
\* succeeds on a valid entry that is writable if the access is a write.
Translates(vpn, rw) ==
  /\ Mapped(ptbr, vpn)
  /\ (IsWrite(rw) => ptes[ptbr][vpn].writable)

\* The framework's memory access: it asks lookup_tlb first; on a miss it walks
\* the page table and caches a successful translation with insert_tlb, and
\* calls handle_page_fault when the walk fails.
Next ==
  \/ \E vpn \in VPN, rw \in AccessModes :
       /\ lookup_tlb(vpn) = -1
       /\ Translates(vpn, rw)
       /\ insert_tlb(vpn, ptes[ptbr][vpn].pfn)
  \/ \E vpn \in VPN, rw \in AccessModes :
       /\ lookup_tlb(vpn) = -1
       /\ ~Translates(vpn, rw)
       /\ handle_page_fault(vpn, rw)
  \/ \E vpn \in VPN, rw \in AllocModes : alloc_page(vpn, rw)
  \/ \E vpn \in VPN : free_page(vpn)
  \/ \E p \in Pids : switch_process(p)

Spec == Init /\ [][Next]_vars

\* The same program on a heap that hands out only zero-filled memory, under a
\* driver that allocates only pages the running process does not map, frees
\* only pages it maps and never switches to the pid that is running.
InitFresh == Init /\ ~heapDirty

NextStrict ==
  \/ \E vpn \in VPN, rw \in AccessModes :
       /\ lookup_tlb(vpn) = -1
       /\ Translates(vpn, rw)
       /\ insert_tlb(vpn, ptes[ptbr][vpn].pfn)
  \/ \E vpn \in VPN, rw \in AccessModes :
       /\ lookup_tlb(vpn) = -1
       /\ ~Translates(vpn, rw)
       /\ handle_page_fault(vpn, rw)
  \/ \E vpn \in VPN, rw \in AllocModes : ~Mapped(ptbr, vpn) /\ alloc_page(vpn, rw)
  \/ \E vpn \in VPN : Mapped(ptbr, vpn) /\ free_page(vpn)
  \/ \E p \in Pids : pid[current] # p /\ switch_process(p)

SpecStrict == InitFresh /\ [][NextStrict]_vars

\* The zero-heap program under the well-behaved driver on longer runs: the
\* driver sets up its pages, all writable, in the first MaxAllocPhase calls
\* and then only accesses them, frees them and switches processes.
InitLong ==
  /\ pid = [p \in ProcIdx |-> 0]
  /\ nprocs = 1
  /\ outer_ptes = [p \in ProcIdx |-> [o \in OuterIdx |-> "null"]]
  /\ ptes = [p \in ProcIdx |-> [v \in VPN |-> ZeroPte]]
  /\ mapcounts = [f \in PFN |-> 0]
  /\ tlb = [i \in TlbIdx |-> ZeroTlb]
  /\ tlbSize = 0
  /\ current = 0
  /\ ptbr = 0
  /\ processes = <<>>
  /\ heapDirty = FALSE
  /\ ub = FALSE
  /\ granted = [p \in ProcIdx |-> [v \in VPN |-> 0]]
  /\ last = [op |-> "init", arg |-> 0, rw |-> 0, ret |-> 0, branch |-> ""]
  /\ steps = 0
  /\ limit = MaxStepsLong

NextLong ==
  \/ \E vpn \in VPN, rw \in AccessModes :
       /\ lookup_tlb(vpn) = -1
       /\ Translates(vpn, rw)
       /\ insert_tlb(vpn, ptes[ptbr][vpn].pfn)
  \/ \E vpn \in VPN, rw \in AccessModes :
       /\ lookup_tlb(vpn) = -1
       /\ ~Translates(vpn, rw)
       /\ handle_page_fault(vpn, rw)
  \/ \E vpn \in VPN, rw \in {RW_READ + RW_WRITE} :
       /\ steps < MaxAllocPhase
       /\ ~Mapped(ptbr, vpn)
       /\ alloc_page(vpn, rw)
  \/ \E vpn \in VPN : Mapped(ptbr, vpn) /\ free_page(vpn)
  \/ \E p \in Pids : pid[current] # p /\ switch_process(p)

SpecLong == InitLong /\ [][NextLong]_vars

(* ---- properties ---- *)

Procs == 0 .. (nprocs - 1)
RW_BOTH == RW_READ + RW_WRITE

\* the number of valid page-table entries, over all processes, bound to f
RefCount(f) ==
  Cardinality({x \in Procs \X VPN : Mapped(x[1], x[2]) /\ ptes[x[1]][x[2]].pfn = f})

\* C1: for every frame f, mapcounts[f] is the number of valid page-table
\* entries of all processes whose pfn is f.
C1_MapcountsMatch == \A f \in PFN : mapcounts[f] = RefCount(f)

\* C2: a page the running process allocated read-only is writable in no
\* process (the allocator or a descendant by fork) for as long as that
\* mapping lasts, and every write fault on it returns failure.
C2_ReadOnlyNeverWritable ==
  /\ \A p \in Procs, v \in VPN :
       granted[p][v] = RW_READ => ~ptes[p][v].writable
  /\ (last.op = "fault" /\ IsWrite(last.rw) /\ granted[current][last.arg] = RW_READ)
       => last.ret = 0

\* a forked child has just write-faulted on a read-only page it inherited
C2_Witness ==
  /\ last.op = "fault"
  /\ IsWrite(last.rw)
  /\ current # 0
  /\ granted[current][last.arg] = RW_READ
  /\ Mapped(current, last.arg)

\* C3: no valid, writable entry of any process is bound to a frame whose
\* reference count is 2 or more.
C3_NoWritableShared ==
  \A p \in Procs, v \in VPN :
    (Mapped(p, v) /\ ptes[p][v].writable /\ ptes[p][v].pfn \in PFN)
      => ~CountGe2(mapcounts[ptes[p][v].pfn])

\* C4: right after a fork, a write fault of the child on an inherited
\* read-write page whose frame count is 2 or more leaves the parent's page
\* table as it was, rebinds the child's entry to another frame whose count
\* becomes 1, lowers the original frame's count by one, makes the child's
\* entry writable and returns success.
C4_ChildCowLeavesParent ==
  [][(/\ last.op = "fork"
      /\ last'.op = "fault"
      /\ IsWrite(last'.rw)
      /\ granted[current][last'.arg] = RW_BOTH
      /\ Mapped(current, last'.arg)
      /\ CountGe2(mapcounts[ptes[current][last'.arg].pfn]))
     => LET v == last'.arg
            par == processes[Len(processes)]
            from == ptes[current][v].pfn
            to == ptes'[current][v].pfn
        IN /\ ptes'[par] = ptes[par]
           /\ Mapped(par, v)
           /\ ptes[par][v].pfn = from
           /\ to \in PFN
           /\ to # from
           /\ mapcounts'[to] = 1
           /\ mapcounts'[from] = mapcounts[from] - 1
           /\ ptes'[current][v].writable
           /\ last'.ret = 1]_vars

\* C5: after switch_process (resume or fork) lookup_tlb misses for every
\* virtual page number.
C5_SwitchFlushesTlb ==
  last.op \in {"resume", "fork"} => \A v \in VPN : lookup_tlb(v) = -1

\* C6: when some frame has count 0, alloc_page returns the smallest such
\* frame, binds it to vpn and raises its count to 1; when none has, it
\* returns -1.
C6_AllocSmallestFree ==
  [][(last'.op = "alloc" /\ last'.branch # "stray")
     => LET v == last'.arg
            free == {f \in PFN : mapcounts[f] = 0}
        IN IF free = {}
             THEN last'.ret = -1
             ELSE /\ last'.ret \in free
                  /\ \A g \in free : last'.ret <= g
                  /\ outer_ptes'[ptbr][Outer(v)] = "dir"
                  /\ ptes'[ptbr][v].valid
                  /\ ptes'[ptbr][v].pfn = last'.ret
                  /\ mapcounts' = [mapcounts EXCEPT ![last'.ret] = 1]]_vars

\* alloc_page has just handed out the smaller of several free frames
C6_Witness ==
  /\ last.op = "alloc"
  /\ last.branch = "ok"
  /\ ptes[ptbr][last.arg].pfn = last.ret
  /\ \E f \in PFN : f > last.ret /\ mapcounts[f] = 0

\* C7: a write fault on a valid, non-writable entry whose original-permission
\* tag is not read-only and whose frame has count exactly 1 returns success,
\* sets writable, keeps the pfn and changes no reference count.
C7_SoleOwnerReenable ==
  [][(/\ last'.op = "fault"
      /\ IsWrite(last'.rw)
      /\ Mapped(ptbr, last'.arg)
      /\ ~ptes[ptbr][last'.arg].writable
      /\ ptes[ptbr][last'.arg].private # RW_READ
      /\ mapcounts[ptes[ptbr][last'.arg].pfn] = 1)
     => /\ last'.ret = 1
        /\ ptes' = [ptes EXCEPT ![ptbr][last'.arg].writable = TRUE]
        /\ mapcounts' = mapcounts]_vars

\* a process that shared a read-write page by fork has write-faulted on it as
\* the frame's sole remaining owner
C7_Witness ==
  /\ last.op = "fault"
  /\ last.branch = "reenable"
  /\ nprocs > 1
  /\ granted[current][last.arg] = RW_BOTH
  /\ ptes[current][last.arg].writable
  /\ mapcounts[ptes[current][last.arg].pfn] = 1

\* C8: free_page(vpn) on a mapped page leaves the entry with valid = false,
\* writable = false and pfn = 0, lowers the frame's count by one, and
\* lookup_tlb(vpn) misses afterwards.
C8_FreeClearsEntryAndTlb ==
  [][(last'.op = "free" /\ Mapped(ptbr, last'.arg))
     => LET v == last'.arg
            from == ptes[ptbr][v].pfn
        IN /\ ~ptes'[ptbr][v].valid
           /\ ~ptes'[ptbr][v].writable
           /\ ptes'[ptbr][v].pfn = 0
           /\ mapcounts'[from] = mapcounts[from] - 1
           /\ TlbHitIdx(tlb', tlbSize', v) = -1]_vars

\* C9: after a fork the child maps exactly the pages the parent mapped before
\* it, each with the parent's pfn and original-permission tag; both copies
\* are not writable; each frame's count has risen by one per shared entry.
C9_ForkClonesTable ==
  [][(last'.op = "fork" /\ ~ub')
     => LET par == current
            ch == current'
        IN /\ \A v \in VPN :
                /\ (outer_ptes'[ch][Outer(v)] = "dir" /\ ptes'[ch][v].valid)
                     <=> Mapped(par, v)
                /\ Mapped(par, v) =>
                     /\ ptes'[ch][v].pfn = ptes[par][v].pfn
                     /\ ptes'[ch][v].private = ptes[par][v].private
                     /\ ~ptes'[ch][v].writable
                     /\ ~ptes'[par][v].writable
           /\ \A f \in PFN :
                mapcounts'[f] = mapcounts[f]
                  + Cardinality({v \in VPN : Mapped(par, v) /\ ptes[par][v].pfn = f})]_vars

\* C10: after a successful alloc_page(vpn, read-write) on a page the process
\* does not map, the entry is writable and its original-permission tag is not
\* read-only, whatever was done with that vpn before.
C10_ReadWriteAllocTag ==
  [][(/\ last'.op = "alloc"
      /\ last'.rw = RW_BOTH
      /\ last'.branch = "ok"
      /\ ~Mapped(ptbr, last'.arg))
     => /\ ptes'[ptbr][last'.arg].writable
        /\ ptes'[ptbr][last'.arg].private # RW_READ]_vars

\* lookup_tlb(vpn) hits an entry that insert_tlb wrote and no free_page has
\* invalidated
Cached(vpn) ==
  LET i == TlbHitIdx(tlb, tlbSize, vpn)
  IN i # -1 /\ tlb[i].valid

\* C11: after insert_tlb(vpn, pfn), lookup_tlb(vpn) returns pfn, and it goes
\* on doing so over every call that is neither switch_process nor
\* free_page(vpn): inserts and frees of other pages leave the entry alone.
C11_InsertedEntryStays ==
  [][/\ last'.op = "insert" =>
          LET i == TlbHitIdx(tlb', tlbSize', last'.arg)
          IN i # -1 /\ tlb'[i].pfn = last'.ret
     /\ \A v \in VPN :
          (/\ Cached(v)
           /\ last'.op \notin {"resume", "fork"}
           /\ ~(last'.op = "free" /\ last'.arg = v))
          => LET i == TlbHitIdx(tlb', tlbSize', v)
             IN i # -1 /\ tlb'[i].pfn = lookup_tlb(v)]_vars

\* C12: handle_page_fault returns failure when the inner directory is
\* missing, when the entry is invalid, and on a write to a non-writable entry
\* tagged read-only; in each case no page table, no reference count and
\* nothing of the TLB changes.
C12_TrueFaultChangesNothing ==
  [][(/\ last'.op = "fault"
      /\ LET d == outer_ptes[ptbr][Outer(last'.arg)]
             e == ptes[ptbr][last'.arg]
         IN \/ d = "null"
            \/ d = "dir" /\ ~e.valid
            \/ /\ d = "dir"
               /\ e.valid
               /\ ~e.writable
               /\ IsWrite(last'.rw)
               /\ e.private = RW_READ)
     => /\ last'.ret = 0
        /\ UNCHANGED <<outer_ptes, ptes, mapcounts, tlb, tlbSize>>]_vars

\* a write fault on a mapped page tagged read-only has been rejected while
\* the TLB holds an entry
C12_Witness ==
  /\ last.op = "fault"
  /\ last.branch = "readonly"
  /\ last.ret = 0
  /\ tlbSize > 0
  /\ Mapped(ptbr, last.arg)

\* the ready-queue positions holding process object p
QueuePlaces(p) == {i \in 1 .. Len(processes) : processes[i] = p}

\* C13: switch_process(pid) with pid in the ready queue makes that process
\* current with its page table active, takes it off the queue, appends the
\* process that was running, and changes no page-table entry and no
\* reference count.
C13_ResumeSwapsProcesses ==
  [][(last'.op = "resume")
     => \E i \in 1 .. Len(processes) :
          /\ pid[processes[i]] = last'.arg
          /\ \A j \in 1 .. (i - 1) : pid[processes[j]] # last'.arg
          /\ current' = processes[i]
          /\ ptbr' = processes[i]
          /\ processes' = SubSeq(processes, 1, i - 1)
                            \o SubSeq(processes, i + 1, Len(processes))
                            \o <<current>>
          /\ UNCHANGED <<outer_ptes, ptes, mapcounts>>]_vars

\* a forked-from parent holding a page has been resumed
C13_Witness ==
  /\ last.op = "resume"
  /\ current = 0
  /\ processes = <<1>>
  /\ \E v \in VPN : Mapped(0, v)

\* C14: exactly one process is current, it is not in the ready queue, every
\* other created process is in the ready queue exactly once, and ptbr is the
\* current process's page table.
C14_OneRunningRestReady ==
  /\ current \in Procs
  /\ ptbr = current
  /\ \A i \in 1 .. Len(processes) : processes[i] \in Procs
  /\ \A p \in Procs :
       Cardinality(QueuePlaces(p)) = IF p = current THEN 0 ELSE 1

\* after a fork and a resume the child waits in the queue and the first
\* process runs again
C14_Witness ==
  /\ nprocs = 2
  /\ current = 0
  /\ QueuePlaces(1) = {1}
  /\ last.op # "resume"

\* process q has a valid entry for frame f
MapsFrame(q, f) == \E w \in VPN : Mapped(q, w) /\ ptes[q][w].pfn = f

\* C15: free_page(vpn) by the current process on a page whose frame another
\* process also maps, with count >= 2, leaves every other process's entries
\* unchanged, lowers the frame's count by exactly one to a value >= 1, and
\* find_smallest_pfn does not hand the frame out afterwards.
C15_FreeSharedKeepsSibling ==
  [][(/\ last'.op = "free"
      /\ ~ub'
      /\ Mapped(ptbr, last'.arg)
      /\ ptes[ptbr][last'.arg].pfn \in PFN
      /\ CountGe2(mapcounts[ptes[ptbr][last'.arg].pfn])
      /\ \E q \in Procs \ {ptbr} : MapsFrame(q, ptes[ptbr][last'.arg].pfn))
     => LET f == ptes[ptbr][last'.arg].pfn
        IN /\ \A q \in Procs \ {ptbr} : ptes'[q] = ptes[q]
           /\ mapcounts'[f] = mapcounts[f] - 1
           /\ \A g \in PFN \ {f} : mapcounts'[g] = mapcounts[g]
           /\ ~CountIsZero(mapcounts'[f])
           /\ find_smallest_pfn(mapcounts') # f]_vars

\* the current process has just freed a page of a frame with count 1 left
\* that the other process still maps
C15_Witness ==
  /\ last.op = "free"
  /\ ~ub
  /\ ~Mapped(ptbr, last.arg)
  /\ \E q \in Procs \ {ptbr} :
       /\ Mapped(q, last.arg)
       /\ ptes[q][last.arg].pfn \in PFN
       /\ CountIsOne(mapcounts[ptes[q][last.arg].pfn])

\* C17: whenever lookup_tlb(vpn) hits with frame p, the active page table has
\* a valid entry for vpn whose pfn is p.
C17_TlbCoherent ==
  \A v \in VPN :
    lookup_tlb(v) # -1
      => /\ Mapped(ptbr, v)
         /\ ptes[ptbr][v].pfn = lookup_tlb(v)

\* C18: alloc_page failing with out-of-memory leaves the current page
\* table's entry for vpn as it was and every reference count unchanged.
C18_OomLeavesEntry ==
  [][(last'.op = "alloc" /\ last'.branch = "oom")
     => /\ last'.ret = -1
        /\ ptes'[ptbr][last'.arg] = ptes[ptbr][last'.arg]
        /\ mapcounts' = mapcounts]_vars

\* C19: every valid page-table entry holds a real frame number and mapcounts
\* is never accessed at an index outside 0 .. NR_PAGEFRAMES - 1.
C19_PfnInRange ==
  /\ \A p \in Procs : \A v \in VPN : Mapped(p, v) => ptes[p][v].pfn \in PFN
  /\ ~ub

\* C16: the final internal-error branch of handle_page_fault is never
\* reached when the handler is invoked only after a translation failure.
C16_NoInternalError ==
  ~(last.op = "fault" /\ last.branch = "error")

\* C20: tlbSize stays within 0 .. capacity of the tlb array.
C20_TlbSizeInRange ==
  0 <= tlbSize /\ tlbSize <= TlbCap
====
